---- MODULE Spec2Model ----
(***************************************************************************)
(* The request pipeline of the AgentGram JavaScript SDK: HttpClient.request *)
(* (http.ts), the error classes (errors.ts) and the AgentGram constructor   *)
(* (client.ts).  Every call of request is a small process: it arms a timer, *)
(* invokes fetch, awaits the response, awaits the body and maps the result. *)
(*                                                                         *)
(* JavaScript values are represented as follows.                           *)
(*   - an optional value (T | undefined) is a sequence of length <= 1:      *)
(*     None is undefined, Some(x) is x;                                     *)
(*   - a string is a TLA+ string; template literals are concatenations;     *)
(*   - a thrown value is a record [name, message, statusCode, code] where   *)
(*     name is the name of its class.                                       *)
(***************************************************************************)
EXTENDS Integers, Sequences, FiniteSets, TLC

\* ------------------------------------------------------------------ bounds

\* Number of request calls that may be in flight on one HttpClient.
NumCalls == 2

Calls == 1..NumCalls

\* ---------------------------------------------------------- optional values

None == <<>>

Some(x) == <<x>>

\* a ?? b
Nullish(a, b) == IF a = None THEN b ELSE a

\* ------------------------------------------------------------------ messages

\* `Request timed out after ${this.timeout}ms`
TimedOutMessage(t) == "Request timed out after " \o ToString(t) \o "ms"

\* `Invalid JSON response (HTTP ${response.status})`
InvalidJsonMessage(status) == "Invalid JSON response (HTTP " \o ToString(status) \o ")"

\* `HTTP ${response.status}`
HttpMessage(status) == "HTTP " \o ToString(status)

\* ------------------------------------------------------------ error classes

\* new Error(message): an undefined message becomes the empty string.
ErrorMessage(message) == IF message = None THEN "" ELSE message[1]

\* A default parameter (message = '...') replaces undefined only.
DefaultParam(message, dflt) == IF message = None THEN Some(dflt) ELSE message

AgentGramError(message, statusCode, code) ==
    [name |-> "AgentGramError", message |-> ErrorMessage(message),
     statusCode |-> statusCode, code |-> code]

AuthenticationError(message) ==
    [AgentGramError(DefaultParam(message, "Authentication failed"), Some(401),
                    Some("AUTHENTICATION_ERROR")) EXCEPT !.name = "AuthenticationError"]

RateLimitError(message) ==
    [AgentGramError(DefaultParam(message, "Rate limit exceeded"), Some(429),
                    Some("RATE_LIMIT_ERROR")) EXCEPT !.name = "RateLimitError"]

NotFoundError(message) ==
    [AgentGramError(DefaultParam(message, "Resource not found"), Some(404),
                    Some("NOT_FOUND_ERROR")) EXCEPT !.name = "NotFoundError"]

ValidationError(message) ==
    [AgentGramError(DefaultParam(message, "Validation failed"), Some(400),
                    Some("VALIDATION_ERROR")) EXCEPT !.name = "ValidationError"]

ServerError(message) ==
    [AgentGramError(DefaultParam(message, "Internal server error"), Some(500),
                    Some("SERVER_ERROR")) EXCEPT !.name = "ServerError"]

\* A TypeError of the runtime (new URL, property access on null, `in` on a
\* primitive): not a class of the SDK.
TypeError(text) ==
    [name |-> "TypeError", message |-> text, statusCode |-> None, code |-> None]

\* The classes declared `extends AgentGramError`, and AgentGramError itself.
SdkErrorClasses ==
    {"AgentGramError", "AuthenticationError", "RateLimitError", "NotFoundError",
     "ValidationError", "ServerError"}

\* e instanceof AgentGramError
InstanceOfAgentGramError(e) == e.name \in SdkErrorClasses

\* ------------------------------------------------------- throwMappedError

\* throwMappedError that rejects a status its table does not name.
throwMappedErrorRejectsUnknown(status, message, code) ==
    CASE status = 400 -> ValidationError(message)
      [] status = 401 -> AuthenticationError(message)
      [] status = 404 -> NotFoundError(message)
      [] status = 429 -> RateLimitError(message)
      [] OTHER -> IF status >= 500
                  THEN ServerError(message)
                  ELSE TypeError("Unknown status " \o ToString(status))

\* throwMappedError with a ServerError that keeps the status it was raised for.
throwMappedErrorKeepsStatus(status, message, code) ==
    CASE status = 400 -> ValidationError(message)
      [] status = 401 -> AuthenticationError(message)
      [] status = 404 -> NotFoundError(message)
      [] status = 429 -> RateLimitError(message)
      [] OTHER -> IF status >= 500
                  THEN [ServerError(message) EXCEPT !.statusCode = Some(status)]
                  ELSE AgentGramError(message, Some(status), code)

\* throwMappedError with the 5xx test written `status > 500`.
throwMappedErrorAbove500(status, message, code) ==
    CASE status = 400 -> ValidationError(message)
      [] status = 401 -> AuthenticationError(message)
      [] status = 404 -> NotFoundError(message)
      [] status = 429 -> RateLimitError(message)
      [] OTHER -> IF status > 500
                  THEN ServerError(message)
                  ELSE AgentGramError(message, Some(status), code)

throwMappedError(status, message, code) ==
    CASE status = 400 -> ValidationError(message)
      [] status = 401 -> AuthenticationError(message)
      [] status = 404 -> NotFoundError(message)
      [] status = 429 -> RateLimitError(message)
      [] OTHER -> IF status >= 500
                  THEN ServerError(message)
                  ELSE AgentGramError(message, Some(status), code)

\* --------------------------------------------------------- configuration

DEFAULT_BASE_URL == "https://agentgram.co/api/v1"

DEFAULT_TIMEOUT == 30000

\* config.baseUrl.replace(/\/+$/, '')
RECURSIVE StripTrailingSlashes(_)
StripTrailingSlashes(s) ==
    IF Len(s) > 0 /\ SubSeq(s, Len(s), Len(s)) = "/"
    THEN StripTrailingSlashes(SubSeq(s, 1, Len(s) - 1))
    ELSE s

\* new HttpClient(config)
HttpClient(cfg) ==
    [baseUrl |-> StripTrailingSlashes(cfg.baseUrl), apiKey |-> cfg.apiKey,
     timeout |-> cfg.timeout]

\* new AgentGram(options): the HttpClient it holds.
AgentGram(options) ==
    HttpClient([baseUrl |-> Nullish(options.baseUrl, Some(DEFAULT_BASE_URL))[1],
                apiKey |-> options.apiKey,
                timeout |-> Nullish(options.timeout, Some(DEFAULT_TIMEOUT))[1]])

\* ------------------------------------------------------------- buildUrl

HasPrefix(s, p) == Len(s) >= Len(p) /\ SubSeq(s, 1, Len(p)) = p

\* new URL(s) throws a TypeError unless s is an absolute URL.
ValidUrl(s) ==
    \/ HasPrefix(s, "https://") /\ Len(s) > Len("https://")
    \/ HasPrefix(s, "http://") /\ Len(s) > Len("http://")

\* A query-parameter value: string | number | boolean | undefined.
undefined == [type |-> "undefined", str |-> "", num |-> 0, bool |-> FALSE]

Str(s) == [type |-> "string", str |-> s, num |-> 0, bool |-> FALSE]

Num(n) == [type |-> "number", str |-> "", num |-> n, bool |-> FALSE]

Bool(b) == [type |-> "boolean", str |-> "", num |-> 0, bool |-> b]

\* String(value)
String(value) ==
    CASE value.type = "string" -> value.str
      [] value.type = "number" -> ToString(value.num)
      [] value.type = "boolean" -> (IF value.bool THEN "true" ELSE "false")
      [] OTHER -> "undefined"

\* A test that lets only truthy values through: `if (value)`.
DefinedTruthy(value) ==
    /\ value # undefined
    /\ value # Str("")
    /\ value # Num(0)
    /\ value # Bool(FALSE)

\* value !== undefined
Defined(value) == value # undefined

\* url.searchParams.set(key, value) on the list of pairs of a URL: the first
\* pair named key takes the value and the other pairs of that name go; a pair
\* is appended when there is none.
RECURSIVE dropKey(_, _)
dropKey(list, key) ==
    IF list = <<>> THEN <<>>
    ELSE IF Head(list).key = key THEN dropKey(Tail(list), key)
    ELSE <<Head(list)>> \o dropKey(Tail(list), key)

RECURSIVE searchParamsSet(_, _, _)
searchParamsSet(list, key, value) ==
    IF list = <<>> THEN <<[key |-> key, value |-> value]>>
    ELSE IF Head(list).key = key
    THEN <<[key |-> key, value |-> value]>> \o dropKey(Tail(list), key)
    ELSE <<Head(list)>> \o searchParamsSet(Tail(list), key, value)

\* The loop of buildUrl over Object.entries(params), from the pairs in list.
RECURSIVE setParams(_, _)
setParams(list, entries) ==
    IF entries = <<>> THEN list
    ELSE setParams(IF Defined(Head(entries).value)
                   THEN searchParamsSet(list, Head(entries).key, String(Head(entries).value))
                   ELSE list,
                   Tail(entries))

\* The application/x-www-form-urlencoded form of a string, over the letters,
\* digits, "-" and the space: a space becomes "+".
RECURSIVE urlencoded(_)
urlencoded(s) ==
    IF s = "" THEN ""
    ELSE (IF SubSeq(s, 1, 1) = " " THEN "+" ELSE SubSeq(s, 1, 1))
         \o urlencoded(SubSeq(s, 2, Len(s)))

\* url.searchParams.toString()
RECURSIVE searchParamsToString(_)
searchParamsToString(list) ==
    IF list = <<>> THEN ""
    ELSE urlencoded(Head(list).key) \o "=" \o urlencoded(Head(list).value)
         \o (IF Tail(list) = <<>> THEN "" ELSE "&" \o searchParamsToString(Tail(list)))

\* url.toString() of a URL without a query of its own and with the pairs list.
urlToString(href, list) ==
    IF list = <<>> THEN href ELSE href \o "?" \o searchParamsToString(list)

\* buildUrl(path, params): the URL as a string, or None when new URL throws.
buildUrl(baseUrl, path, params) ==
    IF ValidUrl(baseUrl \o path)
    THEN Some(urlToString(baseUrl \o path,
                          IF params # None THEN setParams(<<>>, params[1]) ELSE <<>>))
    ELSE None

\* ---------------------------------------------------------- the response

\* response.ok taken to mean "not a client or server error".
ResponseOkBelow400(status) == status >= 200 /\ status < 400

\* response.ok
ResponseOk(status) == status >= 200 /\ status <= 299

\* What `await response.json()` yields.  kind is "malformed" when it rejects,
\* "null" for the JSON value null, "primitive" for a number, string or boolean
\* and "object" for an object; success, error, data, meta are its members
\* ("absent" or None when the object has no such member).
ErrorObjects ==
    {[kind |-> "object", message |-> m, code |-> c] :
        m \in {Some("no such agent")},
        c \in {None, Some("NOT_FOUND"), Some("TIMEOUT_ERROR"), Some("PARSE_ERROR")}}

AbsentMember == [kind |-> "absent", message |-> None, code |-> None]

NullMember == [kind |-> "null", message |-> None, code |-> None]

\* The meta member of a success envelope: { page, limit, total }.
Page1 == [page |-> 1, limit |-> 10, total |-> 1]

Page2 == [page |-> 2, limit |-> 10, total |-> 11]

JsonObjects ==
    {[kind |-> "object", success |-> s, error |-> e, data |-> d, meta |-> m] :
        s \in {"absent", "true", "false"},
        e \in {AbsentMember, NullMember} \cup ErrorObjects,
        d \in {None, Some("p1")},
        m \in {None, Some(Page1)}}

NonObject(k) ==
    [kind |-> k, success |-> "absent", error |-> AbsentMember, data |-> None, meta |-> None]

Bodies == {NonObject("malformed"), NonObject("null"), NonObject("primitive")} \cup JsonObjects

Statuses == {200, 201, 204, 304, 400, 401, 403, 404, 429, 500, 502, 503}

\* ----------------------------------------------------------- outcomes

NoError == [name |-> "", message |-> "", statusCode |-> None, code |-> None]

Pending == [state |-> "pending", value |-> None, error |-> NoError]

Returned(v) == [state |-> "returned", value |-> v, error |-> NoError]

Thrown(e) == [state |-> "thrown", value |-> None, error |-> e]

\* !json.success (for a json that is not null)
NotSuccess(json) == json.kind # "object" \/ json.success # "true"

\* !json.success && 'error' in json (for a json it can be evaluated on)
HasError(json) == NotSuccess(json) /\ json.error.kind # "absent"

\* Lines 100-109 of request: the decoded json against the status.
mapEnvelope(status, json) ==
    IF json.kind = "null"
    THEN Thrown(TypeError("Cannot read properties of null (reading 'success')"))
    ELSE IF ~ResponseOk(status) \/ NotSuccess(json)
    THEN IF json.kind = "primitive"
         THEN Thrown(TypeError("Cannot use 'in' operator to search for 'error'"))
         ELSE IF HasError(json) /\ json.error.kind = "null"
         THEN Thrown(TypeError("Cannot read properties of null (reading 'message')"))
         ELSE Thrown(throwMappedError(
                  status,
                  IF HasError(json) THEN json.error.message ELSE Some(HttpMessage(status)),
                  IF HasError(json) THEN json.error.code ELSE None))
    ELSE Returned(json.data)

\* A request that maps a status outside 200..299 before it decodes the body.
decodeBodyStatusFirst(status, json) ==
    IF json.kind = "malformed"
    THEN IF ResponseOk(status)
         THEN Thrown(AgentGramError(Some(InvalidJsonMessage(status)), Some(status),
                                    Some("PARSE_ERROR")))
         ELSE Thrown(throwMappedError(status, Some(HttpMessage(status)), None))
    ELSE mapEnvelope(status, json)

\* Lines 88-98 of request: the body is decoded, then mapped.
decodeBody(status, json) ==
    IF json.kind = "malformed"
    THEN Thrown(AgentGramError(Some(InvalidJsonMessage(status)), Some(status),
                               Some("PARSE_ERROR")))
    ELSE mapEnvelope(status, json)

\* ------------------------------------------------------- request inputs

\* A request body: a mapping from keys to strings, given by its entries, or a
\* cyclic object (JSON.stringify throws).
EmptyBody == [cyclic |-> FALSE, entries |-> <<>>]

PostBody ==
    [cyclic |-> FALSE,
     entries |-> <<[key |-> "title", value |-> "t"], [key |-> "content", value |-> "c"]>>]

CyclicBody == [cyclic |-> TRUE, entries |-> <<>>]

\* JSON.stringify(body) of a body that is not cyclic, over strings that need
\* no escape.
RECURSIVE stringifyEntries(_)
stringifyEntries(entries) ==
    IF entries = <<>> THEN ""
    ELSE "\"" \o Head(entries).key \o "\":\"" \o Head(entries).value \o "\""
         \o (IF Tail(entries) = <<>> THEN "" ELSE "," \o stringifyEntries(Tail(entries)))

JSONstringify(body) == "{" \o stringifyEntries(body.entries) \o "}"

\* A request that sends an empty object when it is given no body.
requestBodyDefaultsToEmpty(body) ==
    IF body # None THEN Some(JSONstringify(body[1])) ELSE Some("{}")

\* body ? JSON.stringify(body) : undefined
requestBody(body) == IF body # None THEN Some(JSONstringify(body[1])) ELSE None

\* The calls the public methods get, post, patch and delete make of request.
get(path, params) == [method |-> "GET", path |-> path, body |-> None, params |-> params]

post(path, body) == [method |-> "POST", path |-> path, body |-> body, params |-> None]

patch(path, body) == [method |-> "PATCH", path |-> path, body |-> body, params |-> None]

delete(path) == [method |-> "DELETE", path |-> path, body |-> None, params |-> None]

\* The query-parameter mappings of a get: none, the empty one, and those of one
\* or two keys.
ParamKeys == {"sort", "limit"}

ParamValues ==
    {undefined, Str("hot"), Str(""), Str("hot posts"),
     Num(0), Num(25), Bool(FALSE), Bool(TRUE)}

ParamSets ==
    {None, Some(<<>>)}
    \cup {Some(<<[key |-> k, value |-> v]>>) : k \in ParamKeys, v \in ParamValues}
    \cup {Some(<<[key |-> ks[1], value |-> v1], [key |-> ks[2], value |-> v2]>>) :
             ks \in {<<"sort", "limit">>, <<"limit", "sort">>},
             v1 \in ParamValues, v2 \in ParamValues}

Descriptors ==
    {get("/posts", None), delete("/posts/p1"),
     get("/posts", Some(<<[key |-> "sort", value |-> Str("hot")],
                          [key |-> "limit", value |-> Num(25)]>>))}
    \cup {post("/posts", b) : b \in {None, Some(EmptyBody), Some(PostBody), Some(CyclicBody)}}
    \cup {patch("/posts/p1", b) : b \in {None, Some(EmptyBody), Some(PostBody), Some(CyclicBody)}}

NoDescriptor == [method |-> "", path |-> "", body |-> None, params |-> None]

\* What fetch rejects with when the network fails: an Error with a message, or
\* a thrown value that is not an Error.
FetchFailures == {[isError |-> TRUE, message |-> "fetch failed"],
                  [isError |-> FALSE, message |-> ""]}

\* The options a client is constructed with.
OptionSets ==
    {[apiKey |-> k, baseUrl |-> b, timeout |-> t] :
        k \in {"key-1", "key-2"},
        b \in {None, Some("https://self.example/api/v1//"), Some("self.example/api/v1")},
        t \in {None, Some(5), Some(0), Some(0 - 1)}}

\* ------------------------------------------------------------- the state

VARIABLES
    client,     \* the HttpClient's readonly fields baseUrl, apiKey, timeout
    pc,         \* per call: "idle", "fetching" (await fetch), "reading" (await json), "done"
    req,        \* per call: the arguments of request
    timer,      \* per call: the setTimeout timer: "none", "armed", "fired", "cleared"
    armed,      \* per call: how many timers the call has armed
    aborted,    \* per call: controller.signal.aborted
    fetches,    \* per call: how many times fetch was invoked
    sent,       \* per call: the arguments of the fetch invocation, if any
    transport,  \* per call: what the transport delivered: status, body, failure
    outcome     \* per call: pending, the returned value or the thrown error

vars == <<client, pc, req, timer, armed, aborted, fetches, sent, transport, outcome>>

NoTransport == [status |-> None, body |-> None, failure |-> None]

InitCalls ==
    /\ pc = [c \in Calls |-> "idle"]
    /\ req = [c \in Calls |-> NoDescriptor]
    /\ timer = [c \in Calls |-> "none"]
    /\ armed = [c \in Calls |-> 0]
    /\ aborted = [c \in Calls |-> FALSE]
    /\ fetches = [c \in Calls |-> 0]
    /\ sent = [c \in Calls |-> None]
    /\ transport = [c \in Calls |-> NoTransport]
    /\ outcome = [c \in Calls |-> Pending]

\* ------------------------------------------------------------ the timer

\* A finally block that does not clear the timer.
clearTimeoutMissing(t) == t

\* clearTimeout(timeoutId): disarms an armed timer, no effect otherwise.
clearTimeout(t) == IF t = "armed" THEN "cleared" ELSE t

\* One AbortController shared by the calls of a client.
abortShared(ab, c) == [x \in DOMAIN ab |-> TRUE]

\* controller.abort() of call c: the controller is local to the call.
abort(ab, c) == [ab EXCEPT ![c] = TRUE]

\* ------------------------------------------------------------- request

\* Headers whose Authorization is the key without the Bearer scheme.
HeadersRawKey(apiKey) ==
    [ContentType |-> "application/json", Accept |-> "application/json",
     Authorization |-> apiKey]

\* The headers of request (lines 48-52).
Headers(apiKey) ==
    [ContentType |-> "application/json", Accept |-> "application/json",
     Authorization |-> "Bearer " \o apiKey]

\* A catch block that reports every rejection of fetch as a timeout.
catchFetchAlwaysTimeout(timeout, isAbort, failure) ==
    AgentGramError(Some(TimedOutMessage(timeout)), None, Some("TIMEOUT_ERROR"))

\* A catch block without the AbortError test.
catchFetchNoAbortTest(timeout, isAbort, failure) ==
    AgentGramError(
        Some(IF failure.isError THEN failure.message ELSE "Network request failed"),
        None, Some("NETWORK_ERROR"))

\* The catch block of request (lines 66-78) on the value fetch rejected with.
catchFetch(timeout, isAbort, failure) ==
    IF isAbort
    THEN AgentGramError(Some(TimedOutMessage(timeout)), None, Some("TIMEOUT_ERROR"))
    ELSE AgentGramError(
             Some(IF failure.isError THEN failure.message ELSE "Network request failed"),
             None, Some("NETWORK_ERROR"))

\* request(method, path, body, params): the synchronous part, up to `await fetch`.
Request(c, d) ==
    /\ pc[c] = "idle"
    /\ req' = [req EXCEPT ![c] = d]
    /\ LET url == buildUrl(client.baseUrl, d.path, d.params) IN
       IF url = None
       THEN \* new URL throws in buildUrl, before the timer and the try block
            /\ outcome' = [outcome EXCEPT ![c] = Thrown(TypeError("Invalid URL"))]
            /\ pc' = [pc EXCEPT ![c] = "done"]
            /\ UNCHANGED <<timer, armed, fetches, sent>>
       ELSE IF d.body # None /\ d.body[1].cyclic
       THEN \* JSON.stringify throws inside the try block: catch, then finally
            /\ outcome' = [outcome EXCEPT ![c] = Thrown(catchFetch(client.timeout, FALSE,
                              [isError |-> TRUE,
                               message |-> "Converting circular structure to JSON"]))]
            /\ timer' = [timer EXCEPT ![c] = clearTimeout("armed")]
            /\ armed' = [armed EXCEPT ![c] = @ + 1]
            /\ pc' = [pc EXCEPT ![c] = "done"]
            /\ UNCHANGED <<fetches, sent>>
       ELSE /\ timer' = [timer EXCEPT ![c] = "armed"]
            /\ armed' = [armed EXCEPT ![c] = @ + 1]
            /\ fetches' = [fetches EXCEPT ![c] = @ + 1]
            /\ sent' = [sent EXCEPT ![c] = Some(
                   [url |-> url[1], method |-> d.method, headers |-> Headers(client.apiKey),
                    body |-> requestBody(d.body)])]
            /\ pc' = [pc EXCEPT ![c] = "fetching"]
            /\ UNCHANGED outcome
    /\ UNCHANGED <<client, aborted, transport>>

\* The timer's callback: () => controller.abort().
TimerFires(c) ==
    /\ timer[c] = "armed"
    /\ timer' = [timer EXCEPT ![c] = "fired"]
    /\ aborted' = abort(aborted, c)
    /\ UNCHANGED <<client, pc, req, armed, fetches, sent, transport, outcome>>

\* fetch rejects with the AbortError of the call's signal: catch, then finally.
FetchAborted(c) ==
    /\ pc[c] = "fetching"
    /\ aborted[c]
    /\ outcome' = [outcome EXCEPT ![c] = Thrown(catchFetch(client.timeout, TRUE,
                      [isError |-> TRUE, message |-> "This operation was aborted"]))]
    /\ timer' = [timer EXCEPT ![c] = clearTimeout(@)]
    /\ pc' = [pc EXCEPT ![c] = "done"]
    /\ UNCHANGED <<client, req, armed, aborted, fetches, sent, transport>>

\* fetch rejects because the network failed: catch, then finally.
FetchFails(c, f) ==
    /\ pc[c] = "fetching"
    /\ ~aborted[c]
    /\ transport' = [transport EXCEPT ![c].failure = Some(f)]
    /\ outcome' = [outcome EXCEPT ![c] = Thrown(catchFetch(client.timeout, FALSE, f))]
    /\ timer' = [timer EXCEPT ![c] = clearTimeout(@)]
    /\ pc' = [pc EXCEPT ![c] = "done"]
    /\ UNCHANGED <<client, req, armed, aborted, fetches, sent>>

\* A request without the 204 test: every response is decoded.
afterResponseAlwaysReads(status) == "reading"

\* A request that starts over on a 429 response.
afterResponseRetry(status) ==
    IF status = 429 THEN "idle" ELSE IF status = 204 THEN "done" ELSE "reading"

\* Where request goes once fetch has resolved: it returns on a 204 and awaits
\* response.json() on every other status.
afterResponse(status) == IF status = 204 THEN "done" ELSE "reading"

\* fetch resolves with a response: finally, then the 204 test, then
\* `await response.json()`.
FetchResponds(c, status) ==
    /\ pc[c] = "fetching"
    /\ ~aborted[c]
    /\ transport' = [transport EXCEPT ![c].status = Some(status)]
    /\ timer' = [timer EXCEPT ![c] = clearTimeout(@)]
    /\ pc' = [pc EXCEPT ![c] = afterResponse(status)]
    /\ IF status = 204
       THEN outcome' = [outcome EXCEPT ![c] = Returned(None)]
       ELSE UNCHANGED outcome
    /\ UNCHANGED <<client, req, armed, aborted, fetches, sent>>

\* response.json() settles: the rest of request.
BodyRead(c, json) ==
    /\ pc[c] = "reading"
    /\ transport' = [transport EXCEPT ![c].body = Some(json)]
    /\ outcome' = [outcome EXCEPT ![c] = decodeBody(transport[c].status[1], json)]
    /\ pc' = [pc EXCEPT ![c] = "done"]
    /\ UNCHANGED <<client, req, timer, armed, aborted, fetches, sent>>

\* --------------------------------------- one client, concurrent requests

ConcOptions ==
    {[apiKey |-> "key-1", baseUrl |-> None, timeout |-> None],
     [apiKey |-> "key-2", baseUrl |-> Some("self.example/api/v1"), timeout |-> Some(5)],
     [apiKey |-> "key-2", baseUrl |-> Some("https://self.example/api/v1//"),
      timeout |-> Some(5)]}

ConcDescriptors ==
    {get("/posts", None), get("/posts", Some(<<[key |-> "sort", value |-> Str("hot")]>>)),
     post("/posts", Some(PostBody)), post("/posts", Some(CyclicBody))}

ConcStatuses == {200, 204, 403, 404}

ConcBodies ==
    {NonObject("malformed"),
     [kind |-> "object", success |-> "true", error |-> AbsentMember, data |-> Some("p1"),
      meta |-> Some(Page1)],
     [kind |-> "object", success |-> "true", error |-> AbsentMember, data |-> Some("p1"),
      meta |-> Some(Page2)],
     [kind |-> "object", success |-> "false",
      error |-> [kind |-> "object", message |-> Some("no such agent"), code |-> Some("NOT_FOUND")],
      data |-> None, meta |-> None],
     [kind |-> "object", success |-> "false",
      error |-> [kind |-> "object", message |-> Some("no such agent"), code |-> Some("PARSE_ERROR")],
      data |-> None, meta |-> None]}

Init ==
    /\ \E o \in ConcOptions : client = AgentGram(o)
    /\ InitCalls

Next ==
    \E c \in Calls :
        \/ \E d \in ConcDescriptors : Request(c, d)
        \/ TimerFires(c)
        \/ FetchAborted(c)
        \/ \E f \in FetchFailures : FetchFails(c, f)
        \/ \E status \in ConcStatuses : FetchResponds(c, status)
        \/ \E json \in ConcBodies : BodyRead(c, json)

Spec == Init /\ [][Next]_vars

\* --------------------------------- one request, every response it can get

InitPipeline ==
    /\ \E o \in OptionSets : client = AgentGram(o)
    /\ InitCalls

NextPipeline ==
    \/ \E d \in Descriptors : Request(1, d)
    \/ TimerFires(1)
    \/ FetchAborted(1)
    \/ \E f \in FetchFailures : FetchFails(1, f)
    \/ \E status \in Statuses : FetchResponds(1, status)
    \/ \E json \in Bodies : BodyRead(1, json)

SpecPipeline == InitPipeline /\ [][NextPipeline]_vars

\* ------------------------------- one get, every query-parameter mapping

InitQuery ==
    /\ \E o \in ConcOptions : client = AgentGram(o)
    /\ InitCalls

\* The calls of get, one for every mapping of ParamSets.
QueryDescriptors == {get("/posts", params) : params \in ParamSets}

NextQuery ==
    \/ \E d \in QueryDescriptors : Request(1, d)
    \/ TimerFires(1)
    \/ FetchAborted(1)
    \/ \E f \in FetchFailures : FetchFails(1, f)
    \/ \E status \in ConcStatuses : FetchResponds(1, status)
    \/ \E json \in ConcBodies : BodyRead(1, json)

SpecQuery == InitQuery /\ [][NextQuery]_vars

\* ------------------------------------------- the scheduling of the runtime

\* The event loop runs the callback of a timer that stays armed, and fetch
\* rejects once its signal is aborted.  Nothing makes the transport deliver a
\* status or a body, or fail.
Fairness ==
    \A c \in Calls : WF_vars(TimerFires(c)) /\ WF_vars(FetchAborted(c))

SpecLive == Init /\ [][Next]_vars /\ Fairness

\* ================================================================ claims

\* What the transport delivered to call c.
Status(c) == transport[c].status[1]

Json(c) == transport[c].body[1]

Decoded(c) == pc[c] = "done" /\ transport[c].status # None /\ transport[c].body # None

Err(c) == outcome[c].error

\* An envelope: a JSON object whose `error` member, when it has one, is an object.
IsEnvelope(json) == json.kind = "object" /\ json.error.kind # "null"

\* A failure envelope: success is false and the error member is an object.
IsFailureEnvelope(json) ==
    json.kind = "object" /\ json.success = "false" /\ json.error.kind = "object"

\* The errors that throwMappedError raises (not the Parse error, whose code is
\* PARSE_ERROR, and not an error of the runtime).
StatusMapped(c) ==
    /\ Decoded(c)
    /\ outcome[c].state = "thrown"
    /\ Json(c).kind = "object"
    /\ InstanceOfAgentGramError(Err(c))

\* The table of the specification, status -> class of the error.
KindOfStatus(status) ==
    IF status = 400 THEN "ValidationError"
    ELSE IF status = 401 THEN "AuthenticationError"
    ELSE IF status = 404 THEN "NotFoundError"
    ELSE IF status = 429 THEN "RateLimitError"
    ELSE IF status >= 500 THEN "ServerError"
    ELSE "AgentGramError"

\* C1: when the body decodes to an envelope and the call fails (status outside
\* 200..299, or success not true), the class of the raised error is the one the
\* table gives for the HTTP status, whatever the envelope holds.
C1_KindFollowsStatus ==
    \A c \in Calls :
        (/\ Decoded(c)
         /\ IsEnvelope(Json(c))
         /\ (Status(c) < 200 \/ Status(c) > 299 \/ Json(c).success # "true"))
        => /\ outcome[c].state = "thrown"
           /\ Err(c).name = KindOfStatus(Status(c))

\* A 503 with a failure envelope was raised as a ServerError.
C1_Witness ==
    /\ Decoded(1)
    /\ Status(1) = 503
    /\ IsFailureEnvelope(Json(1))
    /\ Err(1).name = "ServerError"

\* C2: for every status in {400, 401, 404, 429, 500, 502, 503} received with a
\* failure envelope, the statusCode of the raised error is the status received.
C2_StatusCodeIsHttpStatus ==
    \A c \in Calls :
        (/\ Decoded(c)
         /\ Status(c) \in {400, 401, 404, 429, 500, 502, 503}
         /\ IsFailureEnvelope(Json(c)))
        => /\ outcome[c].state = "thrown"
           /\ Err(c).statusCode = Some(Status(c))

\* C3: whatever makes request fail, the value it raises is an instance of
\* AgentGramError.
C3_OnlyAgentGramErrors ==
    \A c \in Calls :
        outcome[c].state = "thrown" => InstanceOfAgentGramError(Err(c))

\* The timer of call c fired while fetch was still pending.
FiredBeforeTransport(c) ==
    timer[c] = "fired" /\ transport[c].status = None /\ transport[c].failure = None

\* C4: a call ends with the Timeout error (code TIMEOUT_ERROR, no statusCode)
\* exactly when its timer fired before fetch completed, and the message then
\* holds the configured timeout; once the transport has delivered a response or
\* a failure, the outcome is never Timeout.
C4_TimeoutIffTimerFired ==
    \A c \in Calls :
        pc[c] = "done" =>
            /\ (/\ outcome[c].state = "thrown"
                /\ Err(c).code = Some("TIMEOUT_ERROR")
                /\ Err(c).statusCode = None) <=> FiredBeforeTransport(c)
            /\ FiredBeforeTransport(c) =>
                   /\ Err(c).name = "AgentGramError"
                   /\ Err(c).message =
                          "Request timed out after " \o ToString(client.timeout) \o "ms"

\* A call timed out on a client whose timeout is 5 ms.
C4_Witness ==
    /\ pc[1] = "done"
    /\ client.timeout = 5
    /\ timer[1] = "fired"
    /\ Err(1).code = Some("TIMEOUT_ERROR")
    /\ Err(1).message = "Request timed out after 5ms"

\* C5: once a call has returned or raised, its timer is not armed; a call that
\* reached the transport armed exactly one timer; and a timer fires only while
\* its call awaits fetch, never after the call completed.
C5_TimerDisarmed ==
    /\ [](\A c \in Calls : pc[c] = "done" => timer[c] # "armed")
    /\ [](\A c \in Calls : fetches[c] >= 1 => armed[c] = 1)
    /\ [][\A c \in Calls :
            (timer[c] # "fired" /\ timer'[c] = "fired") => pc[c] = "fetching"]_vars

\* Two calls of one client have completed, one with a payload and one with a
\* mapped error, each having armed one timer and cleared it.
C5_Witness ==
    \E a, b \in Calls :
        /\ a # b
        /\ pc[a] = "done" /\ pc[b] = "done"
        /\ outcome[a].state = "returned" /\ timer[a] = "cleared" /\ armed[a] = 1
        /\ Err(b).name = "NotFoundError" /\ timer[b] = "cleared" /\ armed[b] = 1

\* C6: every invocation of request performs exactly one transport invocation.
C6_ExactlyOneFetch ==
    \A c \in Calls : pc[c] = "done" => fetches[c] = 1

\* The URL of call c cannot be parsed, or its body cannot be serialized.
FailsBeforeTransport(c) ==
    \/ ~HasPrefix(client.baseUrl, "http")
    \/ req[c].body # None /\ req[c].body[1].cyclic

\* C6 (amended): a call never invokes fetch twice; it has invoked it exactly
\* once as soon as it has started, whatever the outcome, unless its URL cannot
\* be built or its body cannot be serialized, and then it never invokes it.
C6_OneFetchUnlessItFailsBefore ==
    \A c \in Calls :
        /\ fetches[c] <= 1
        /\ pc[c] # "idle" => fetches[c] = (IF FailsBeforeTransport(c) THEN 0 ELSE 1)

\* A call that received a 429 raised RateLimitError having invoked fetch once.
C6_Witness ==
    /\ pc[1] = "done"
    /\ fetches[1] = 1
    /\ transport[1].status = Some(429)
    /\ Err(1).name = "RateLimitError"

\* The state of one call.
CallState(c) ==
    <<pc[c], req[c], timer[c], armed[c], aborted[c], fetches[c], sent[c],
      transport[c], outcome[c]>>

\* C7: a step that changes the state of a call A, the firing of A's timer
\* included, leaves the timer, the signal, the transport and the outcome of
\* every other call B unchanged; and the signal of a call is aborted only by
\* that call's own timer.
C7_CallsAreIndependent ==
    /\ [][\A a, b \in Calls :
            (a # b /\ CallState(a)' # CallState(a)) => CallState(b)' = CallState(b)]_vars
    /\ [](\A b \in Calls : aborted[b] <=> timer[b] = "fired")

\* Call a timed out while call b was in flight, and b then returned its payload.
C7_Witness ==
    \E a, b \in Calls :
        /\ a # b
        /\ timer[a] = "fired" /\ Err(a).code = Some("TIMEOUT_ERROR")
        /\ timer[b] = "cleared" /\ outcome[b] = Returned(Some("p1"))

\* C8: request returns a payload exactly when the transport completed and the
\* status is 204, or is in 200..299 with an envelope whose success is true; the
\* payload is then the data member of the envelope.  Every other completed
\* call raises.
C8_ReturnsIffSuccess ==
    \A c \in Calls :
        pc[c] = "done" =>
            /\ outcome[c].state \in {"returned", "thrown"}
            /\ outcome[c].state = "returned" <=>
                   /\ transport[c].status # None
                   /\ \/ Status(c) = 204
                      \/ /\ Status(c) \in 200..299
                         /\ transport[c].body # None
                         /\ Json(c).kind = "object"
                         /\ Json(c).success = "true"
            /\ (outcome[c].state = "returned" /\ Status(c) # 204) =>
                   outcome[c].value = Json(c).data

\* A 201 with a success envelope returned its data.
C8_Witness ==
    /\ Decoded(1)
    /\ Status(1) = 201
    /\ Json(1).success = "true"
    /\ Json(1).data = Some("p1")
    /\ outcome[1] = Returned(Some("p1"))

\* C9: when a status-mapped error is raised for a failure envelope that embeds
\* an error code, the code of the raised error is the embedded code.
C9_CodeIsEmbeddedCode ==
    \A c \in Calls :
        (/\ StatusMapped(c)
         /\ IsFailureEnvelope(Json(c))
         /\ Json(c).error.code # None)
        => Err(c).code = Json(c).error.code

\* C10: the message of a status-mapped error is the embedded error message
\* when success is false and there is an error member, and `HTTP <status>` in
\* every other case.
C10_MessageOnlyOfFailureEnvelope ==
    \A c \in Calls :
        StatusMapped(c) =>
            /\ (Json(c).success = "false" /\ Json(c).error.kind = "object")
               => Some(Err(c).message) = Json(c).error.message
            /\ ~(Json(c).success = "false" /\ Json(c).error.kind = "object")
               => Err(c).message = "HTTP " \o ToString(Status(c))

\* C11: a body that is valid JSON but has no `success` member makes request
\* raise a Parse error (code PARSE_ERROR), whatever the status.
C11_NoDiscriminantIsParseError ==
    \A c \in Calls :
        (/\ Decoded(c)
         /\ Json(c).kind = "object"
         /\ Json(c).success = "absent")
        => /\ outcome[c].state = "thrown"
           /\ Err(c).code = Some("PARSE_ERROR")

\* C12: a body that cannot be decoded makes request raise the base
\* AgentGramError with code PARSE_ERROR and the received status as statusCode,
\* for statuses outside 200..299 too: decoding comes before the status mapping.
C12_UndecodableIsParseError ==
    \A c \in Calls :
        (Decoded(c) /\ Json(c).kind = "malformed")
        => /\ outcome[c].state = "thrown"
           /\ Err(c).name = "AgentGramError"
           /\ Err(c).code = Some("PARSE_ERROR")
           /\ Err(c).statusCode = Some(Status(c))

\* A 503 whose body is not JSON was raised as a Parse error carrying 503, and
\* not as a ServerError.
C12_Witness ==
    /\ Decoded(1)
    /\ Status(1) = 503
    /\ Json(1).kind = "malformed"
    /\ Err(1).name = "AgentGramError"
    /\ Err(1).code = Some("PARSE_ERROR")
    /\ Err(1).statusCode = Some(503)

\* C13: a 204 makes request return undefined, for every method: the call is
\* over as soon as fetch resolves, response.json() is never awaited, so that
\* whatever the body holds is never decoded, and nothing is raised.
C13_NoContentReturnsUndefined ==
    \A c \in Calls :
        transport[c].status = Some(204)
        => /\ pc[c] = "done"
           /\ outcome[c] = Returned(None)
           /\ transport[c].body = None

\* A DELETE or a POST was answered 204 and returned undefined.
C13_Witness ==
    /\ transport[1].status = Some(204)
    /\ req[1].method \in {"DELETE", "POST"}
    /\ pc[1] = "done"
    /\ outcome[1] = Returned(None)

\* Why call c failed: its timer fired (Timeout), fetch was not invoked or
\* rejected (Network), the body could not be decoded (Parse), or the status was
\* mapped (the class the table gives; AgentGramError stands for Generic).
CauseKind(c) ==
    IF timer[c] = "fired" THEN "Timeout"
    ELSE IF transport[c].status = None THEN "Network"
    ELSE IF Json(c).kind = "malformed" THEN "Parse"
    ELSE KindOfStatus(Status(c))

\* What a caller can read of an error without its message.
Discriminant(c) == <<Err(c).name, Err(c).statusCode, Err(c).code>>

\* A call that completed by raising an error of the SDK.
Failed(c) ==
    pc[c] = "done" /\ outcome[c].state = "thrown" /\ InstanceOfAgentGramError(Err(c))

\* C14: two calls that failed for causes of different kinds never raise errors
\* with the same class name, statusCode and code, whatever code the envelope
\* embeds.
C14_KindsAreDistinguishable ==
    \A a, b \in Calls :
        (Failed(a) /\ Failed(b) /\ CauseKind(a) # CauseKind(b))
        => Discriminant(a) # Discriminant(b)

\* C15: the meta of a success envelope reaches the caller with the data: two
\* calls that returned for success envelopes with the same data and different
\* meta returned different results.
C15_MetaReachesCaller ==
    \A a, b \in Calls :
        (/\ Decoded(a) /\ Decoded(b)
         /\ outcome[a].state = "returned" /\ outcome[b].state = "returned"
         /\ Json(a).data = Json(b).data
         /\ Json(a).meta # Json(b).meta)
        => outcome[a] # outcome[b]

\* The pairs of the query string of a URL, parsed back from the string: the
\* part after the first "?", split at "&", each piece split at its first "="
\* and decoded ("+" is a space).
RECURSIVE IndexOf(_, _, _)
IndexOf(s, ch, i) ==
    IF i > Len(s) THEN 0
    ELSE IF SubSeq(s, i, i) = ch THEN i
    ELSE IndexOf(s, ch, i + 1)

RECURSIVE SplitAt(_, _)
SplitAt(s, ch) ==
    IF s = "" THEN <<>>
    ELSE LET i == IndexOf(s, ch, 1) IN
         IF i = 0 THEN <<s>>
         ELSE <<SubSeq(s, 1, i - 1)>> \o SplitAt(SubSeq(s, i + 1, Len(s)), ch)

RECURSIVE FormDecode(_)
FormDecode(s) ==
    IF s = "" THEN ""
    ELSE (IF SubSeq(s, 1, 1) = "+" THEN " " ELSE SubSeq(s, 1, 1))
         \o FormDecode(SubSeq(s, 2, Len(s)))

ParsePair(piece) ==
    LET i == IndexOf(piece, "=", 1) IN
    IF i = 0 THEN [key |-> FormDecode(piece), value |-> ""]
    ELSE [key |-> FormDecode(SubSeq(piece, 1, i - 1)),
          value |-> FormDecode(SubSeq(piece, i + 1, Len(piece)))]

QueryOf(url) ==
    LET i == IndexOf(url, "?", 1)
        pieces == IF i = 0 THEN <<>> ELSE SplitAt(SubSeq(url, i + 1, Len(url)), "&")
    IN [n \in DOMAIN pieces |-> ParsePair(pieces[n])]

\* The entries of the mapping a call passed as params.
ParamsOf(c) == IF req[c].params = None THEN <<>> ELSE req[c].params[1]

\* C16: in the URL a call hands to fetch, a key is in the query string if and
\* only if the mapping gives it a value that is not undefined, and it carries
\* String(value) there; 0, false and the empty string are serialized as "0",
\* "false" and "".
C16_QueryHasExactlyTheDefinedKeys ==
    \A c \in Calls :
        sent[c] # None
        => LET query == QueryOf(sent[c][1].url)
               params == ParamsOf(c)
           IN /\ \A k \in ParamKeys :
                     (\E i \in DOMAIN query : query[i].key = k)
                     <=> (\E j \in DOMAIN params :
                              params[j].key = k /\ params[j].value # undefined)
              /\ \A i \in DOMAIN query : query[i].key \in ParamKeys
              /\ \A i \in DOMAIN query, j \in DOMAIN params :
                     query[i].key = params[j].key
                     => /\ query[i].value = String(params[j].value)
                        /\ params[j].value = Num(0) => query[i].value = "0"
                        /\ params[j].value = Bool(FALSE) => query[i].value = "false"
                        /\ params[j].value = Str("") => query[i].value = ""

\* A get whose mapping has limit 0 and an undefined sort was sent with the
\* query string "limit=0".
C16_Witness ==
    /\ req[1].params = Some(<<[key |-> "limit", value |-> Num(0)],
                              [key |-> "sort", value |-> undefined]>>)
    /\ sent[1] # None
    /\ sent[1][1].url = "https://agentgram.co/api/v1/posts?limit=0"
    /\ pc[1] = "done"

\* C17: when fetch rejected for a reason other than the timer's abort, request
\* raised the base AgentGramError with code NETWORK_ERROR and no statusCode,
\* whose message is the failure's message, or "Network request failed" when
\* the value fetch rejected with is not an Error.
C17_NetworkFailureIsNetworkError ==
    \A c \in Calls :
        transport[c].failure # None
        => /\ pc[c] = "done"
           /\ timer[c] # "fired"
           /\ outcome[c].state = "thrown"
           /\ Err(c).name = "AgentGramError"
           /\ Err(c).code = Some("NETWORK_ERROR")
           /\ Err(c).statusCode = None
           /\ Err(c).message = IF transport[c].failure[1].isError
                               THEN transport[c].failure[1].message
                               ELSE "Network request failed"

\* fetch rejected with a value that is not an Error and the call raised
\* "Network request failed".
C17_Witness ==
    /\ transport[1].failure # None
    /\ ~transport[1].failure[1].isError
    /\ outcome[1].state = "thrown"
    /\ Err(1).message = "Network request failed"
    /\ Err(1).code = Some("NETWORK_ERROR")

\* C18: the timeout a client holds is greater than 0, so the delay of every
\* timer a request arms, which is that timeout, is greater than 0.
C18_TimeoutIsPositive ==
    \A c \in Calls : armed[c] > 0 => client.timeout > 0

\* The status and the code of the README's error table for a named subclass.
FixedStatus(name) ==
    CASE name = "AuthenticationError" -> 401
      [] name = "ValidationError" -> 400
      [] name = "NotFoundError" -> 404
      [] name = "RateLimitError" -> 429
      [] name = "ServerError" -> 500

FixedCode(name) ==
    CASE name = "AuthenticationError" -> "AUTHENTICATION_ERROR"
      [] name = "ValidationError" -> "VALIDATION_ERROR"
      [] name = "NotFoundError" -> "NOT_FOUND_ERROR"
      [] name = "RateLimitError" -> "RATE_LIMIT_ERROR"
      [] name = "ServerError" -> "SERVER_ERROR"

\* C19: an error raised as one of the named subclasses has that subclass's
\* fixed statusCode and fixed code, whatever the status and the envelope of
\* the response.
C19_SubclassHasFixedStatusAndCode ==
    \A c \in Calls :
        (/\ outcome[c].state = "thrown"
         /\ Err(c).name \in SdkErrorClasses \ {"AgentGramError"})
        => /\ Err(c).statusCode = Some(FixedStatus(Err(c).name))
           /\ Err(c).code = Some(FixedCode(Err(c).name))

\* A 503 whose envelope embeds the code NOT_FOUND was raised as a ServerError
\* with statusCode 500 and code SERVER_ERROR.
C19_Witness ==
    /\ Decoded(1)
    /\ Status(1) = 503
    /\ Json(1).kind = "object"
    /\ Json(1).error.code = Some("NOT_FOUND")
    /\ outcome[1].state = "thrown"
    /\ Err(1).name = "ServerError"
    /\ Err(1).statusCode = Some(500)
    /\ Err(1).code = Some("SERVER_ERROR")

\* C20: the options request hands to fetch have a body if and only if the
\* caller supplied one; a supplied body is sent as its JSON text, the empty
\* mapping as "{}", and without a supplied body none is sent.
C20_BodySentIffSupplied ==
    \A c \in Calls :
        sent[c] # None
        => /\ sent[c][1].body # None <=> req[c].body # None
           /\ req[c].body = Some(EmptyBody) => sent[c][1].body = Some("{}")
           /\ req[c].body = Some(PostBody)
              => sent[c][1].body = Some("{\"title\":\"t\",\"content\":\"c\"}")

\* A post with the empty mapping was sent with the body "{}", and the call
\* is over.
C20_Witness ==
    /\ req[1].method = "POST"
    /\ req[1].body = Some(EmptyBody)
    /\ sent[1] # None
    /\ sent[1][1].body = Some("{}")
    /\ pc[1] = "done"

\* C21: the options of every fetch a client makes, concurrent ones included,
\* hold exactly the headers Content-Type: application/json, Accept:
\* application/json and Authorization: Bearer <apiKey> with the apiKey of the
\* client, whatever the method, path, body and query; and no step of a call
\* changes the configuration (baseUrl, apiKey, timeout) of the client.
C21_HeadersFixedAndConfigUnchanged ==
    /\ [](\A c \in Calls :
              sent[c] # None
              => sent[c][1].headers =
                     [ContentType |-> "application/json", Accept |-> "application/json",
                      Authorization |-> "Bearer " \o client.apiKey])
    /\ [][client' = client]_vars

\* Two calls of the client built with key-2 are in flight at once, a get with
\* a query and a post with a body, both sent with Authorization: Bearer key-2.
C21_Witness ==
    /\ client.apiKey = "key-2"
    /\ pc[1] = "fetching" /\ pc[2] = "fetching"
    /\ req[1].method = "GET" /\ req[1].params # None
    /\ req[2].method = "POST" /\ req[2].body # None
    /\ sent[1][1].headers.Authorization = "Bearer key-2"
    /\ sent[2][1].headers.Authorization = "Bearer key-2"

\* C22: every call of request that has started is eventually over, with a
\* value returned or an error raised, given only that an armed timer fires.
C22_StartedCallCompletes ==
    \A c \in Calls : (pc[c] # "idle") ~> (pc[c] = "done")

\* A status that the table of throwMappedError does not name.
OtherStatus(status) == status \notin {400, 401, 404, 429} /\ status < 500

\* C23: a failure envelope received with a 2xx status is raised as the base
\* AgentGramError with that status and the code the envelope embeds; and an
\* envelope received with a status outside 200..299 that the table does not
\* name is raised as the base AgentGramError with that status, and with the
\* embedded code when it is a failure envelope and no code when it has no
\* error member.
C23_UnnamedStatusIsGeneric ==
    \A c \in Calls :
        (/\ Decoded(c)
         /\ OtherStatus(Status(c))
         /\ \/ Status(c) \in 200..299 /\ IsFailureEnvelope(Json(c))
            \/ Status(c) \notin 200..299 /\ IsEnvelope(Json(c)))
        => /\ outcome[c].state = "thrown"
           /\ Err(c).name = "AgentGramError"
           /\ Err(c).statusCode = Some(Status(c))
           /\ IsFailureEnvelope(Json(c)) => Err(c).code = Json(c).error.code
           /\ Json(c).error = AbsentMember => Err(c).code = None

\* A 201 with a failure envelope that embeds NOT_FOUND was raised as the base
\* AgentGramError with statusCode 201 and code NOT_FOUND.
C23_Witness ==
    /\ Decoded(1)
    /\ Status(1) = 201
    /\ IsFailureEnvelope(Json(1))
    /\ Json(1).error.code = Some("NOT_FOUND")
    /\ outcome[1].state = "thrown"
    /\ Err(1).name = "AgentGramError"
    /\ Err(1).statusCode = Some(201)
    /\ Err(1).code = Some("NOT_FOUND")

\* C24: a call whose URL cannot be built raises without having armed a timer
\* or invoked fetch; a call whose URL can be built and whose body cannot be
\* serialized raises the base AgentGramError with code NETWORK_ERROR, having
\* armed its timer once and disarmed it, without having invoked fetch.
C24_EarlyFailuresLeaveNothingBehind ==
    \A c \in Calls :
        pc[c] # "idle"
        => IF ~ValidUrl(client.baseUrl \o req[c].path)
           THEN /\ pc[c] = "done"
                /\ outcome[c].state = "thrown"
                /\ armed[c] = 0 /\ timer[c] = "none"
                /\ fetches[c] = 0 /\ sent[c] = None
           ELSE (req[c].body # None /\ req[c].body[1].cyclic)
                => /\ pc[c] = "done"
                   /\ outcome[c].state = "thrown"
                   /\ Err(c).name = "AgentGramError"
                   /\ Err(c).code = Some("NETWORK_ERROR")
                   /\ armed[c] = 1 /\ timer[c] = "cleared"
                   /\ fetches[c] = 0 /\ sent[c] = None

\* A patch with a cyclic body on a client whose URL can be built is over with
\* a NETWORK_ERROR, its timer armed once and cleared and fetch not invoked.
C24_Witness ==
    /\ req[1].method = "PATCH"
    /\ req[1].body = Some(CyclicBody)
    /\ ValidUrl(client.baseUrl \o req[1].path)
    /\ pc[1] = "done"
    /\ Err(1).code = Some("NETWORK_ERROR")
    /\ armed[1] = 1 /\ timer[1] = "cleared"
    /\ fetches[1] = 0

====
